---- MODULE Spec2Model ----
(***************************************************************************)
(* FileMovement.py: organize_files sorts every file under a root directory *)
(* into a root-level folder named after its upper-cased extension, renames *)
(* on collision, and removes the directories left empty.                   *)
(*                                                                         *)
(* A file name is a sequence of tokens ("a", ".", "t", "_1", ...); a path  *)
(* is the sequence of names below the root (the root itself is <<>>).      *)
(* The filesystem is a record [dirs, files]: dirs is the set of directory  *)
(* paths, files maps every file path to the identity of the file found     *)
(* there (the path it had when the model started).                         *)
(***************************************************************************)
EXTENDS Integers, Sequences, FiniteSets, TLC

VARIABLES
    rootKind,       \* what source_path is: "dir", "file" or "missing"
    fs,             \* the tree below source_path: [dirs, files]
    fs0,            \* fs when the current run started
    lockedFiles,    \* identities of the files whose move raises
    deniedKeys,     \* folder names whose creation raises
    stuckDirs,      \* directories whose rmdir raises
    run,            \* 1 for the first call of organize_files, 2 for the second
    pc,             \* position in organize_files
    files_by_type,  \* sequence of [file_type, files], in insertion order
    gi,             \* index of the group being processed
    fi,             \* index of the file being processed; 0 before the mkdir
    total_moved,
    total_errors,
    skipped,        \* files that took the "already in place" branch
    nscanned,       \* len(all_files)
    removed_count,
    failed          \* file types whose folder could not be created (history)

vars == <<rootKind, fs, fs0, lockedFiles, deniedKeys, stuckDirs, run, pc,
          files_by_type, gi, fi, total_moved, total_errors, skipped, nscanned,
          removed_count, failed>>

\* ------------------------------------------------------------------ bounds
MaxFiles == 3      \* files in the initial tree
MaxDirs == 2       \* directories below the root in the initial tree
MaxFaults == 1     \* locked files + denied folders + undeletable directories

\* ------------------------------------------------------------------- names
nAt == <<"a", ".", "t">>
nA1t == <<"a", "_1", ".", "t">>
nT == <<"T">>
nS == <<"s">>
nU == <<"u">>
NO_EXTENSION == <<"NO_EXTENSION">>

FileNames == {nAt, nA1t, nT}
DirUniverse == {<<nS>>, <<nS, nU>>, <<nS, nT>>, <<nT>>}

source_path == <<>>

\* Op applied to the value of v, v being evaluated once
Let(v, Op(_)) == CHOOSE r \in {Op(x) : x \in {v}} : TRUE

Name(p) == p[Len(p)]
Parent(p) == SubSeq(p, 1, Len(p) - 1)

\* ------------------------------------------------- pathlib / str functions
\* str.rfind('.') on a name, 1-based; 0 when there is no dot
RECURSIVE RFindDot(_, _)
RFindDot(name, i) ==
    IF i = 0 THEN 0
    ELSE IF name[i] = "." THEN i ELSE RFindDot(name, i - 1)

\* PurePath.suffix: from the last dot, unless it is the first or last character
Suffix(name) ==
    LET i == RFindDot(name, Len(name))
    IN IF 1 < i /\ i < Len(name) THEN SubSeq(name, i, Len(name)) ELSE <<>>

\* PurePath.stem
Stem(name) ==
    LET i == RFindDot(name, Len(name))
    IN IF 1 < i /\ i < Len(name) THEN SubSeq(name, 1, i - 1) ELSE name

\* str.lstrip('.')
RECURSIVE LStripDot(_)
LStripDot(s) ==
    IF s # <<>> /\ Head(s) = "." THEN LStripDot(Tail(s)) ELSE s

UpperChar(c) ==
    CASE c = "a" -> "A"
      [] c = "s" -> "S"
      [] c = "t" -> "T"
      [] c = "u" -> "U"
      [] OTHER -> c

\* str.upper()
Upper(s) == [i \in 1..Len(s) |-> UpperChar(s[i])]

\* lines 58-62: the extension key of a file name
ExtensionKey(name) ==
    LET extension == Upper(LStripDot(Suffix(name)))
    IN IF extension = <<>> THEN NO_EXTENSION ELSE extension

\* f"_{counter}" as one token
CounterToken(counter) ==
    <<"_1", "_2", "_3", "_4", "_5", "_6", "_7", "_8", "_9">>[counter]

\* -------------------------------------------------------------- filesystem
Exists(f, p) == p \in f.dirs \/ p \in DOMAIN f.files

ChildDirs(f, top) == {d \in f.dirs : Len(d) = Len(top) + 1 /\ Parent(d) = top}
ChildFiles(f, top) ==
    {p \in DOMAIN f.files : Len(p) = Len(top) + 1 /\ Parent(p) = top}

\* any(dir_path.iterdir())
HasEntries(f, d) == ChildDirs(f, d) # {} \/ ChildFiles(f, d) # {}

\* the path at which the file of identity id is found, as a set (empty if lost)
PathsOf(f, id) == {p \in DOMAIN f.files : f.files[p] = id}
FileIds(f) == {f.files[p] : p \in DOMAIN f.files}

RECURSIVE Perms(_)
Perms(S) ==
    IF S = {} THEN {<<>>}
    ELSE UNION {{<<x>> \o r : r \in Perms(S \ {x})} : x \in S}

\* ------------------------------------------------------------------ scanner
\* os.walk(directory), top-down: the files of a directory, then its
\* subdirectories in turn; the order of os.scandir is not specified, so
\* get_all_files is the set of the lists the walk can return.
RECURSIVE get_all_files(_, _), WalkDirs(_, _)
get_all_files(f, directory) ==
    UNION {{filenames \o rest : rest \in WalkDirs(f, dirs)} :
              filenames \in Perms(ChildFiles(f, directory)),
              dirs \in Perms(ChildDirs(f, directory))}
WalkDirs(f, dirs) ==
    IF dirs = <<>> THEN {<<>>}
    ELSE {h \o r : h \in get_all_files(f, Head(dirs)),
                   r \in WalkDirs(f, Tail(dirs))}

\* --------------------------------------------------------------- classifier
GroupIndex(groups, key) ==
    IF \E i \in 1..Len(groups) : groups[i].file_type = key
    THEN CHOOSE i \in 1..Len(groups) : groups[i].file_type = key
    ELSE 0

\* files_by_type[extension].append(file_path)
AppendToGroup(groups, key, file_path) ==
    LET i == GroupIndex(groups, key)
    IN IF i = 0
       THEN Append(groups, [file_type |-> key, files |-> <<file_path>>])
       ELSE [groups EXCEPT ![i].files = Append(@, file_path)]

\* lines 55-64
RECURSIVE Classify(_, _)
Classify(all_files, groups) ==
    IF all_files = <<>> THEN groups
    ELSE Let(AppendToGroup(groups, ExtensionKey(Name(Head(all_files))),
                           Head(all_files)),
             LAMBDA g : Classify(Tail(all_files), g))

Keys(groups) == {groups[i].file_type : i \in 1..Len(groups)}

\* -------------------------------------------------------------------- mover
\* The mover's running state: [fs, total_moved, total_errors, skipped].

\* line 73
DestFolder(file_type) == source_path \o <<file_type>>

\* line 76: dest_folder.mkdir(exist_ok=True) raises when a non-directory has
\* the name, or when the folder is absent and cannot be created
MkdirRaises(f, dest_folder) ==
    \/ dest_folder \in DOMAIN f.files
    \/ dest_folder \notin f.dirs /\ Name(dest_folder) \in deniedKeys

\* lines 76-77: the folder exists afterwards
Mkdir(M, dest_folder) ==
    [M EXCEPT !.fs.dirs = @ \cup {dest_folder}]

\* the group counted as one error
MkdirFailedCountsOne(M, files) ==
    [M EXCEPT !.total_errors = @ + 1]

\* lines 78-81: the except branch
MkdirFailed(M, files) ==
    [M EXCEPT !.total_errors = @ + Len(files)]

\* lines 91-97: the first free name among name, stem_1suffix, stem_2suffix, ...
RECURSIVE ConflictLoop(_, _, _, _)
ConflictLoop(f, dest_folder, name, counter) ==
    LET dest_file == dest_folder \o <<Stem(name) \o <<CounterToken(counter)>>
                                       \o Suffix(name)>>
    IN IF Exists(f, dest_file)
       THEN ConflictLoop(f, dest_folder, name, counter + 1)
       ELSE dest_file

\* the collision loop left out
DestFileNoLoop(f, dest_folder, name) == dest_folder \o <<name>>

DestFile(f, dest_folder, name) ==
    IF Exists(f, dest_folder \o <<name>>)
    THEN ConflictLoop(f, dest_folder, name, 1)
    ELSE dest_folder \o <<name>>

\* line 101: shutil.move raises for a locked (or vanished) source
MoveRaises(f, file_path) ==
    \/ file_path \notin DOMAIN f.files
    \/ f.files[file_path] \in lockedFiles

\* a copy that leaves the source behind
shutil_move_keeps_source(f, src, dst) ==
    [f EXCEPT !.files =
        [p \in DOMAIN f.files \cup {dst} |->
            IF p = dst THEN f.files[src] ELSE f.files[p]]]

\* line 101: shutil.move(src, dst) on success is os.rename: the entry leaves
\* src and (re)places whatever file is at dst
shutil_move(f, src, dst) ==
    [f EXCEPT !.files =
        [p \in (DOMAIN f.files \ {src}) \cup {dst} |->
            IF p = dst THEN f.files[src] ELSE f.files[p]]]

\* the skip counted as a move
SkipCountedAsMoved(M) ==
    [M EXCEPT !.skipped = @ + 1, !.total_moved = @ + 1]

\* lines 86-88
SkipInPlace(M) == [M EXCEPT !.skipped = @ + 1]

\* lines 101-103
Moved(M, file_path, dest_file) ==
    [M EXCEPT !.fs = shutil_move(@, file_path, dest_file),
              !.total_moved = @ + 1]

\* lines 104-106
MoveFailed(M) == [M EXCEPT !.total_errors = @ + 1]

\* lines 84-106: the body of the inner loop for one file
ProcessFile(M, file_type, file_path) ==
    LET dest_folder == DestFolder(file_type)
        dest_file == DestFile(M.fs, dest_folder, Name(file_path))
    IN IF Parent(file_path) = dest_folder THEN SkipInPlace(M)
       ELSE IF MoveRaises(M.fs, file_path) THEN MoveFailed(M)
       ELSE Moved(M, file_path, dest_file)

RECURSIVE ProcessFiles(_, _, _)
ProcessFiles(M, file_type, files) ==
    IF files = <<>> THEN M
    ELSE ProcessFiles(ProcessFile(M, file_type, Head(files)), file_type,
                      Tail(files))

\* lines 71-106: the body of the outer loop for one group
ProcessGroup(M, group) ==
    IF MkdirRaises(M.fs, DestFolder(group.file_type))
    THEN MkdirFailed(M, group.files)
    ELSE ProcessFiles(Mkdir(M, DestFolder(group.file_type)), group.file_type,
                      group.files)

\* lines 66-106: the whole mover, groups taken in the order given
RECURSIVE ProcessGroups(_, _)
ProcessGroups(M, groups) ==
    IF groups = <<>> THEN M
    ELSE ProcessGroups(ProcessGroup(M, Head(groups)), Tail(groups))

\* lines 66-68
NewStatistics(f) ==
    [fs |-> f, total_moved |-> 0, total_errors |-> 0, skipped |-> 0]

\* ------------------------------------------------------------------ cleaner
RECURSIVE SetToSeq(_)
SetToSeq(S) ==
    IF S = {} THEN <<>>
    ELSE Let(CHOOSE y \in S : TRUE, LAMBDA x : <<x>> \o SetToSeq(S \ {x}))

\* line 129: os.walk(directory, topdown=False) lists a directory's entries,
\* walks each subdirectory, and only then yields the directory; the loop of
\* line 130 then visits the listed subdirectories.  The result is the
\* sequence of dir_path values in the order the loop body sees them.
RECURSIVE WalkBottomUp(_, _), WalkBottomUpEach(_, _)
\* topdown=True: a directory's subdirectories are visited before theirs
WalkParentsFirst(f, top) ==
    Let(SetToSeq(ChildDirs(f, top)),
        LAMBDA dirs : dirs \o WalkBottomUpEach(f, dirs))
WalkBottomUp(f, top) ==
    Let(SetToSeq(ChildDirs(f, top)),
        LAMBDA dirs : WalkBottomUpEach(f, dirs) \o dirs)
WalkBottomUpEach(f, dirs) ==
    IF dirs = <<>> THEN <<>>
    ELSE WalkBottomUp(f, Head(dirs)) \o WalkBottomUpEach(f, Tail(dirs))

\* the exclusion test left out
IsExcludedNever(dir_path, exclude_folders) == FALSE

\* line 134
IsExcluded(dir_path, exclude_folders) == Name(dir_path) \in exclude_folders

\* line 140: rmdir raises for a directory that cannot be removed
RmdirRaises(f, dir_path) == dir_path \in stuckDirs \/ HasEntries(f, dir_path)

\* line 139: iterdir raises for a directory that is no longer there
IterdirRaises(f, dir_path) == dir_path \notin f.dirs

\* lines 131-145: the loop body for one dir_path; C is [fs, removed_count]
CleanupDir(C, dir_path, exclude_folders) ==
    IF IsExcluded(dir_path, exclude_folders) THEN C
    ELSE IF IterdirRaises(C.fs, dir_path) THEN C
    ELSE IF HasEntries(C.fs, dir_path) THEN C
    ELSE IF RmdirRaises(C.fs, dir_path) THEN C
    ELSE [fs |-> [C.fs EXCEPT !.dirs = @ \ {dir_path}],
          removed_count |-> C.removed_count + 1]

RECURSIVE CleanupLoop(_, _, _)
CleanupLoop(C, dir_paths, exclude_folders) ==
    IF dir_paths = <<>> THEN C
    ELSE Let(CleanupDir(C, Head(dir_paths), exclude_folders),
             LAMBDA c : CleanupLoop(c, Tail(dir_paths), exclude_folders))

\* lines 119-148
cleanup_empty_dirs(f, exclude_folders) ==
    Let(WalkBottomUp(f, source_path),
        LAMBDA dir_paths :
            CleanupLoop([fs |-> f, removed_count |-> 0], dir_paths,
                        exclude_folders))

\* ------------------------------------------------------------- orchestrator
\* the is_dir() half of the test forgotten
ValidRootExistsOnly(kind) == kind # "missing"

\* line 41
ValidRoot(kind) == kind = "dir"

\* lines 84, 71: where the loops stand after file fi of group gi (fi = 0:
\* after a failed mkdir, which skips the group)
NextPosition(groups, g, f) ==
    IF f > 0 /\ f < Len(groups[g].files) THEN [pc |-> "mover", gi |-> g, fi |-> f + 1]
    ELSE IF g < Len(groups) THEN [pc |-> "mover", gi |-> g + 1, fi |-> 0]
    ELSE [pc |-> "cleanup", gi |-> g + 1, fi |-> 0]

\* the exception of line 101 not caught: the run ends there
AfterMoveErrorRaises(groups, g, f) == [pc |-> "aborted", gi |-> g, fi |-> f]

\* lines 104-106: the except branch falls through to the next iteration
AfterMoveError(groups, g, f) == NextPosition(groups, g, f)

\* lines 78-81: continue
AfterMkdirError(groups, g) == NextPosition(groups, g, 0)

\* line 76 succeeded: the inner loop starts (it may be empty only if the
\* group is, and no group is empty)
AfterMkdir(groups, g) == [pc |-> "mover", gi |-> g, fi |-> 1]

CurrentM ==
    [fs |-> fs, total_moved |-> total_moved, total_errors |-> total_errors,
     skipped |-> skipped]

SetM(M) ==
    /\ fs' = M.fs
    /\ total_moved' = M.total_moved
    /\ total_errors' = M.total_errors
    /\ skipped' = M.skipped

SetPosition(pos) ==
    /\ pc' = pos.pc
    /\ gi' = pos.gi
    /\ fi' = pos.fi

Environment == <<rootKind, lockedFiles, deniedKeys, stuckDirs>>

\* ---------------------------------------------------------------- initial
ParentClosed(ds) == \A d \in ds : Len(d) > 1 => Parent(d) \in ds

FileUniverse(ds) ==
    {d \o <<n>> : d \in ds \cup {source_path}, n \in FileNames} \ ds

KeyUniverse == {ExtensionKey(n) : n \in FileNames}

Init ==
    /\ rootKind \in {"dir", "file", "missing"}
    /\ \E ds \in SUBSET DirUniverse :
         /\ ParentClosed(ds)
         /\ Cardinality(ds) <= MaxDirs
         /\ \E fp \in SUBSET FileUniverse(ds) :
              /\ Cardinality(fp) <= MaxFiles
              /\ rootKind # "dir" => ds = {} /\ fp = {}
              /\ fs = [dirs |-> ds, files |-> [p \in fp |-> p]]
              /\ \E lf \in SUBSET fp, dk \in SUBSET KeyUniverse,
                    sd \in SUBSET ds :
                   /\ Cardinality(lf) + Cardinality(dk) + Cardinality(sd)
                        <= MaxFaults
                   /\ lockedFiles = lf
                   /\ deniedKeys = dk
                   /\ stuckDirs = sd
    /\ fs0 = fs
    /\ run = 1
    /\ pc = "start"
    /\ files_by_type = <<>>
    /\ gi = 0
    /\ fi = 0
    /\ total_moved = 0
    /\ total_errors = 0
    /\ skipped = 0
    /\ nscanned = 0
    /\ removed_count = 0
    /\ failed = {}

\* ----------------------------------------------------------------- actions
\* lines 38-43
InvalidRoot ==
    /\ pc = "start"
    /\ ~ValidRoot(rootKind)
    /\ pc' = "aborted"
    /\ UNCHANGED <<Environment, fs, fs0, run, files_by_type, gi, fi,
                   total_moved, total_errors, skipped, nscanned, removed_count, failed>>

\* lines 48-52
NoFiles ==
    /\ pc = "start"
    /\ ValidRoot(rootKind)
    /\ get_all_files(fs, source_path) = {<<>>}
    /\ pc' = "nofiles"
    /\ UNCHANGED <<Environment, fs, fs0, run, files_by_type, gi, fi,
                   total_moved, total_errors, skipped, nscanned, removed_count, failed>>

\* lines 48-68
Scan ==
    /\ pc = "start"
    /\ ValidRoot(rootKind)
    /\ \E all_files \in get_all_files(fs, source_path) :
         /\ all_files # <<>>
         /\ files_by_type' = Classify(all_files, <<>>)
         /\ nscanned' = Len(all_files)
    /\ pc' = "mover"
    /\ gi' = 1
    /\ fi' = 0
    /\ UNCHANGED <<Environment, fs, fs0, run, total_moved, total_errors,
                   skipped, removed_count, failed>>

\* lines 73-77
MkdirOk ==
    /\ pc = "mover" /\ fi = 0
    /\ ~MkdirRaises(fs, DestFolder(files_by_type[gi].file_type))
    /\ SetM(Mkdir(CurrentM, DestFolder(files_by_type[gi].file_type)))
    /\ SetPosition(AfterMkdir(files_by_type, gi))
    /\ UNCHANGED <<Environment, fs0, run, files_by_type, nscanned,
                   removed_count, failed>>

\* lines 73-81
MkdirFail ==
    /\ pc = "mover" /\ fi = 0
    /\ MkdirRaises(fs, DestFolder(files_by_type[gi].file_type))
    /\ SetM(MkdirFailed(CurrentM, files_by_type[gi].files))
    /\ SetPosition(AfterMkdirError(files_by_type, gi))
    /\ failed' = failed \cup {files_by_type[gi].file_type}
    /\ UNCHANGED <<Environment, fs0, run, files_by_type, nscanned,
                   removed_count>>

\* lines 84-88
SkipFile ==
    /\ pc = "mover" /\ fi > 0
    /\ Parent(files_by_type[gi].files[fi]) = DestFolder(files_by_type[gi].file_type)
    /\ SetM(ProcessFile(CurrentM, files_by_type[gi].file_type,
                        files_by_type[gi].files[fi]))
    /\ SetPosition(NextPosition(files_by_type, gi, fi))
    /\ UNCHANGED <<Environment, fs0, run, files_by_type, nscanned,
                   removed_count, failed>>

\* lines 84-103
MoveFile ==
    /\ pc = "mover" /\ fi > 0
    /\ Parent(files_by_type[gi].files[fi]) # DestFolder(files_by_type[gi].file_type)
    /\ ~MoveRaises(fs, files_by_type[gi].files[fi])
    /\ SetM(ProcessFile(CurrentM, files_by_type[gi].file_type,
                        files_by_type[gi].files[fi]))
    /\ SetPosition(NextPosition(files_by_type, gi, fi))
    /\ UNCHANGED <<Environment, fs0, run, files_by_type, nscanned,
                   removed_count, failed>>

\* lines 84-106
MoveFileFail ==
    /\ pc = "mover" /\ fi > 0
    /\ Parent(files_by_type[gi].files[fi]) # DestFolder(files_by_type[gi].file_type)
    /\ MoveRaises(fs, files_by_type[gi].files[fi])
    /\ SetM(ProcessFile(CurrentM, files_by_type[gi].file_type,
                        files_by_type[gi].files[fi]))
    /\ SetPosition(AfterMoveError(files_by_type, gi, fi))
    /\ UNCHANGED <<Environment, fs0, run, files_by_type, nscanned,
                   removed_count, failed>>

\* lines 108-109
Cleanup ==
    /\ pc = "cleanup"
    /\ fs' = cleanup_empty_dirs(fs, Keys(files_by_type)).fs
    /\ removed_count' =
           cleanup_empty_dirs(fs, Keys(files_by_type)).removed_count
    /\ pc' = "summary"
    /\ UNCHANGED <<Environment, fs0, run, files_by_type, gi, fi, total_moved,
                   total_errors, skipped, nscanned, failed>>

\* lines 111-116
Summary ==
    /\ pc = "summary"
    /\ pc' = "done"
    /\ UNCHANGED <<Environment, fs, fs0, run, files_by_type, gi, fi,
                   total_moved, total_errors, skipped, nscanned, removed_count, failed>>

\* organize_files is called again on the same root, nothing else having
\* touched the tree
Rerun ==
    /\ pc = "done"
    /\ run = 1
    /\ run' = 2
    /\ pc' = "start"
    /\ fs0' = fs
    /\ files_by_type' = <<>>
    /\ gi' = 0
    /\ fi' = 0
    /\ total_moved' = 0
    /\ total_errors' = 0
    /\ skipped' = 0
    /\ nscanned' = 0
    /\ removed_count' = 0
    /\ failed' = {}
    /\ UNCHANGED <<Environment, fs>>

Next ==
    \/ InvalidRoot
    \/ NoFiles
    \/ Scan
    \/ MkdirOk
    \/ MkdirFail
    \/ SkipFile
    \/ MoveFile
    \/ MoveFileFail
    \/ Cleanup
    \/ Summary

Spec == Init /\ [][Next]_vars

\* Progress is checked over the trees made of these paths: they take every
\* branch of the run (skip, move, rename, failed move, failed mkdir, removal).
FairFiles == {<<nAt>>, <<nT>>, <<nS, nAt>>, <<nS, nT>>, <<nT, nAt>>, <<nT, nA1t>>}
FairDirs == {<<nS>>, <<nS, nU>>, <<nT>>}

FairInit ==
    /\ Init
    /\ fs.dirs \subseteq FairDirs
    /\ DOMAIN fs.files \subseteq FairFiles

\* every statement of the sequential program terminates, so a run that can
\* take a step does
FairSpec == FairInit /\ [][Next]_vars /\ WF_vars(Next)

NextRerun == Next \/ Rerun

SpecRerun == Init /\ [][NextRerun]_vars

\* ------------------------------------------------------------------- claims
\* what a run did to the file of identity x, read off the tree
DestOf(x) == DestFolder(ExtensionKey(Name(x)))
AtStart(x) == PathsOf(fs0, x)
Stayed(x) == PathsOf(fs, x) = AtStart(x)
StartedInPlace(x) == \A p \in AtStart(x) : Parent(p) = DestOf(x)
InDest(f, x) == \E p \in PathsOf(f, x) : Parent(p) = DestOf(x)

MoverFinished == pc \in {"cleanup", "summary", "done"}

\* C1: a second run on the same root, nothing else having touched the tree,
\* moves no file: its moved count stays 0 and every file keeps its path.
C1_SecondRunMovesNothing ==
    run = 2 => total_moved = 0 /\ fs.files = fs0.files

\* the groups of the scan, taken in every order
GroupOrders(groups) ==
    {[i \in 1..Len(groups) |-> groups[o[i]]] : o \in Perms(1..Len(groups))}

Outcome(M, x) ==
    IF PathsOf(M.fs, x) = AtStart(x)
    THEN IF StartedInPlace(x) THEN "skipped" ELSE "errored"
    ELSE "moved"

\* what the claim compares: counts, each file's outcome, and per destination
\* folder the files in it and the names in use
Result(M) ==
    [moved |-> M.total_moved,
     errors |-> M.total_errors,
     outcome |-> [x \in FileIds(fs0) |-> Outcome(M, x)],
     members |-> [k \in KeyUniverse |->
                     {M.fs.files[p] : p \in ChildFiles(M.fs, DestFolder(k))}],
     names |-> [k \in KeyUniverse |->
                   {Name(p) : p \in ChildFiles(M.fs, DestFolder(k))}]]

\* C9: for a fixed initial tree, processing the groups in any order gives the
\* same counts, the same outcome for every file and the same content of
\* every destination folder.
C9_GroupOrderIndependent ==
    pc = "cleanup" =>
        \A groups \in GroupOrders(files_by_type) :
            Result(ProcessGroups(NewStatistics(fs0), groups)) = Result(CurrentM)

WellFormed(f) ==
    \A p \in f.dirs \cup DOMAIN f.files : Len(p) > 1 => Parent(p) \in f.dirs

\* C8: when the root does not exist or is not a directory the run stops at
\* the validation: the scan, the mover and the cleaner are never entered
\* and nothing is created, moved or removed.
C8_InvalidRootAborts ==
    rootKind # "dir" =>
        /\ pc \in {"start", "aborted"}
        /\ fs = fs0
        /\ files_by_type = <<>>
        /\ total_moved = 0 /\ total_errors = 0 /\ removed_count = 0

C8_Witness == rootKind = "file" /\ pc = "aborted"

C10_OutcomeAccounting ==
    MoverFinished =>
        LET ids == FileIds(fs0)
            movedIds == {x \in ids : ~Stayed(x)}
            skippedIds == {x \in ids : Stayed(x) /\ StartedInPlace(x)}
            erroredIds == {x \in ids : Stayed(x) /\ ~StartedInPlace(x)}
        IN /\ nscanned = Cardinality(ids)
           /\ total_moved = Cardinality(movedIds)
           /\ skipped = Cardinality(skippedIds)
           /\ total_errors = Cardinality(erroredIds)
           /\ total_moved + total_errors + skipped = nscanned
           /\ \A x \in movedIds : InDest(fs, x)

C10_Witness ==
    /\ pc = "done"
    /\ total_moved > 0
    /\ total_errors > 0
    /\ skipped > 0

NumberedName(name, N) == Stem(name) \o <<CounterToken(N)>> \o Suffix(name)

\* a step puts a file at path p (p is new, or holds another file than before)
Placed(p) == p \notin DOMAIN fs.files \/ fs'.files[p] # fs.files[p]

\* the path placed is inside the destination folder of the file, nothing is
\* there, and its name is the file's own or <stem>_<N><suffix> with the
\* file's own name and every lower number taken
TargetIsFree(p) ==
    LET src == CHOOSE q \in DOMAIN fs.files : fs.files[q] = fs'.files[p]
        name == Name(src)
        dest == DestFolder(ExtensionKey(name))
    IN /\ ~Exists(fs, p)
       /\ Parent(p) = dest
       /\ \/ Name(p) = name
          \/ \E N \in 1..9 :
                /\ Name(p) = NumberedName(name, N)
                /\ Exists(fs, dest \o <<name>>)
                /\ \A k \in 1..(N - 1) :
                      Exists(fs, dest \o <<NumberedName(name, k)>>)

SameName(x, y) ==
    /\ x # y
    /\ Name(x) = Name(y)
    /\ Parent(x) # Parent(y)

Distinct(x, y) == PathsOf(fs, x) \cap PathsOf(fs, y) = {}

Errored(x) == Stayed(x) /\ ~StartedInPlace(x)

\* C2 as stated, second half: after the run any two files of the same name
\* from different source directories are both in the destination folder,
\* under distinct names.
C2_Original ==
    pc = "done" =>
        \A x, y \in FileIds(fs0) :
            SameName(x, y) => InDest(fs, x) /\ InDest(fs, y) /\ Distinct(x, y)

\* C2 (amended): every move targets a path inside the destination folder
\* that nothing occupies at the moment of the move (the name is the file's
\* own, or <stem>_<N><suffix> with N counted up from 1 until unused), so no
\* existing file is overwritten; and after the run any two files of the same
\* name from different source directories, neither of which was left behind
\* with an error, are both in the destination folder under distinct names.
C2_NoOverwrite ==
    /\ [][\A p \in DOMAIN fs'.files : Placed(p) => TargetIsFree(p)]_vars
    /\ [](pc = "done" =>
            \A x, y \in FileIds(fs0) :
                (SameName(x, y) /\ ~Errored(x) /\ ~Errored(y)) =>
                    InDest(fs, x) /\ InDest(fs, y) /\ Distinct(x, y))

C2_Witness ==
    /\ pc = "done"
    /\ DestFolder(nT) \o <<NumberedName(nAt, 2)>> \in DOMAIN fs.files
    /\ \E x, y \in FileIds(fs0) :
          SameName(x, y) /\ ~Stayed(x) /\ ~Stayed(y)

\* the root-level destination folders of the run
DestFolders == {DestFolder(k) : k \in Keys(files_by_type)}

Empty(f, d) == d \in f.dirs /\ ~HasEntries(f, d)

\* C4 as stated: when organize_files has finished on a valid root, every
\* empty directory below the root is one of the root-level destination
\* folders.
C4_Original ==
    (rootKind = "dir" /\ pc \in {"done", "nofiles"}) =>
        \A d \in fs.dirs : Empty(fs, d) => d \in DestFolders

\* C4 (amended): when a run that found at least one file has finished, every
\* directory below the root, at any depth, that is empty, whose name is not
\* an extension key of the scan and whose removal did not fail has been
\* removed, also one that became empty through the removal of its children;
\* directories that hold an entry are still there.
C4_EmptyDirsRemoved ==
    pc = "done" =>
        /\ \A d \in fs.dirs :
              Empty(fs, d) =>
                  Name(d) \in Keys(files_by_type) \/ d \in stuckDirs
        /\ WellFormed(fs)

C4_Witness ==
    /\ pc = "done"
    /\ <<nS, nU>> \in fs0.dirs
    /\ ChildFiles(fs0, <<nS>>) = {}
    /\ <<nS>> \notin fs.dirs
    /\ removed_count = 2

\* C5: no step removes a root-level directory named by an extension key of
\* the scan, whether it holds files or is empty.
C5_DestFoldersKept ==
    [][\A d \in DestFolders : d \in fs.dirs => d \in fs'.dirs]_vars

C5_Witness ==
    /\ pc = "done"
    /\ \E d \in DestFolders : Empty(fs, d)
    /\ total_errors > 0

\* the folder of the group at hand cannot be created
FolderCreationFails ==
    /\ pc = "mover"
    /\ fi = 0
    /\ LET d == source_path \o <<files_by_type[gi].file_type>>
       IN \/ d \in DOMAIN fs.files
          \/ d \notin fs.dirs /\ files_by_type[gi].file_type \in deniedKeys

RECURSIVE GroupSizes(_, _)
GroupSizes(groups, keys) ==
    IF groups = <<>> THEN 0
    ELSE (IF Head(groups).file_type \in keys THEN Len(Head(groups).files) ELSE 0)
         + GroupSizes(Tail(groups), keys)

NotFailed(group) == group.file_type \notin failed

\* C6: when the folder of a group cannot be created, the error counter
\* grows by the size of the group, no file moves, and the mover goes on to
\* the next group; when the mover is through, the tree and the moved count
\* are those of a run over the other groups alone, and the error count is
\* that run's plus the sizes of the failed groups.
C6_GroupFailureIsolated ==
    /\ [][FolderCreationFails =>
            /\ total_errors' = total_errors + Len(files_by_type[gi].files)
            /\ total_moved' = total_moved
            /\ fs' = fs
            /\ gi' = gi + 1 /\ fi' = 0
            /\ pc' = IF gi < Len(files_by_type) THEN "mover" ELSE "cleanup"]_vars
    /\ [](pc = "cleanup" =>
            LET others == ProcessGroups(NewStatistics(fs0),
                                        SelectSeq(files_by_type, NotFailed))
            IN /\ gi = Len(files_by_type) + 1
               /\ fs = others.fs
               /\ total_moved = others.total_moved
               /\ total_errors =
                     others.total_errors + GroupSizes(files_by_type, failed))

C6_Witness ==
    /\ pc = "cleanup"
    /\ total_moved > 0
    /\ \E i \in 1..Len(files_by_type) :
          /\ files_by_type[i].file_type \in failed
          /\ Len(files_by_type[i].files) = 2

\* C7: in a run that found a file, no directory disappears before the mover
\* has been through every group and every file, and the run always gets
\* from the mover to the cleaner and from the cleaner to the end of the
\* summary, whatever failed.
C7_PipelineOrder ==
    /\ [][fs.dirs \ fs'.dirs # {} =>
            /\ pc = "cleanup"
            /\ gi = Len(files_by_type) + 1
            /\ total_moved + total_errors + skipped = nscanned]_vars
    /\ (pc = "mover" ~> pc = "cleanup")
    /\ (pc = "cleanup" ~> pc = "done")

C7_Witness ==
    /\ pc = "done"
    /\ failed # {}
    /\ \E x \in lockedFiles : Stayed(x) /\ ~StartedInPlace(x)
    /\ removed_count > 0

====
